---------------------------- MODULE Spec2Model ----------------------------
(*************************************************************************)
(* Model of src/src/multi_gpx_map/draft.py: the three track loaders      *)
(* (GPX, FIT, TCX), the extension dispatch of add_track_file_to_map, the *)
(* minimum-length gate of add_track_to_map, the stride resampler         *)
(* resample_track and the batch loop of the __main__ block.              *)
(*                                                                       *)
(* resample_track computes its indices in binary floating point          *)
(* (len(points) / max_points, then int(i * interval)).  The model keeps  *)
(* that arithmetic: a float is a 53-bit significand held as a sequence   *)
(* of bits plus the exponent of its leading bit, and division,           *)
(* multiplication and truncation round as IEEE-754 doubles do.           *)
(*************************************************************************)
EXTENDS Integers, Sequences, FiniteSets, TLC

VARIABLES
    points,        \* resample_track: the input track (a sequence of GeoPoints)
    max_points,    \* the point budget handed to resample_track / add_track_file_to_map
    resampled,     \* resample_track: the returned track
    selected,      \* resample_track: the idx values that passed `idx < len(points)`
    rpc,           \* "call" before resample_track runs, "done" after it returned
    file_path,     \* add_track_file_to_map: the file it is called on
    folium_map,    \* the polylines added to the map so far, in order
    outcome,       \* "none" before a call, "ok" on return, else the exception raised
    opened,        \* the files whose content has been opened for reading, in order
    called,        \* the loaders that have been invoked, in order
    dir,           \* __main__: the files of DIR_PATH, in directory order
    fmt,           \* __main__: position in file_formats
    files,         \* add_track_files_to_map: the glob matches still to process
    pc,            \* __main__: "formats", "files", "save", "done" or "crashed"
    map_html       \* the saved map: "absent" until folium_map.save writes it

resampleVars == <<points, resampled, selected, rpc>>
fileVars == <<file_path, folium_map, outcome, opened, called>>
mainVars == <<dir, fmt, files, pc, map_html>>
vars == <<resampleVars, max_points, fileVars, mainVars>>

-----------------------------------------------------------------------------
(* Bounds of the model *)

\* longest track handed to resample_track directly
MaxLen == 30

\* largest max_points handed to resample_track directly
MaxBudget == 22

\* most messages / Trackpoints in a FIT / TCX file given to add_track_file_to_map
MaxRecords == 3

\* most tracks in a GPX document, and most segments in a track
MaxNest == 2

\* largest max_points handed to add_track_file_to_map directly
MaxFileBudget == 3

\* most files in the directory the __main__ block scans
MaxFiles == 2

-----------------------------------------------------------------------------
(* Python float arithmetic (IEEE-754 binary64, round-to-nearest-even) *)

\* number of significand bits of a Python float
MantBits == 53

\* 0.0
FloatZero == [m |-> <<>>, e |-> 0]

\* floor(log2(a / b)) for a >= b > 0
RECURSIVE Log2Quot(_, _)
Log2Quot(a, b) == IF 2 * b <= a THEN 1 + Log2Quot(a, 2 * b) ELSE 0

\* -floor(log2(a / b)) for 0 < a < b: the doublings of a needed to reach b
RECURSIVE Log2QuotNeg(_, _)
Log2QuotNeg(a, b) == IF a < b THEN 1 + Log2QuotNeg(2 * a, b) ELSE 0

\* Long division: the next k bits (k >= 1) of the binary expansion of rem / b,
\* for 0 <= rem < b, and the remainder left after them.  The k steps are
\* done as two runs of about k/2 steps, the second starting from the
\* remainder of the first.
RECURSIVE DivSteps(_, _, _)
DivSteps(rem, b, k) ==
    IF k = 1
    THEN IF 2 * rem >= b THEN [bits |-> <<1>>, rem |-> 2 * rem - b]
                         ELSE [bits |-> <<0>>, rem |-> 2 * rem]
    ELSE LET first == DivSteps(rem, b, k \div 2)
         IN  IF first.rem < b
             THEN LET second == DivSteps(first.rem, b, k - (k \div 2))
                  IN  [bits |-> first.bits \o second.bits, rem |-> second.rem]
             ELSE first

\* k zero bits
Zeros(k) == [j \in 1..k |-> 0]

\* bits + 1, as a bit sequence (one bit longer when every bit was 1)
IncBits(bits) ==
    LET zeros == {k \in 1..Len(bits) : bits[k] = 0}
        last  == IF zeros = {} THEN 0
                 ELSE CHOOSE k \in zeros : \A j \in zeros : j <= k
    IN  SubSeq(bits, 1, last - 1) \o <<1>> \o Zeros(Len(bits) - last)

\* the integer a bit sequence (most significant bit first) denotes
RECURSIVE BitsValue(_)
BitsValue(bits) ==
    IF bits = <<>> THEN 0
    ELSE IF Len(bits) = 1 THEN bits[1]
    ELSE LET h  == Len(bits) \div 2
             hi == SubSeq(bits, 1, h)
             lo == SubSeq(bits, h + 1, Len(bits))
         IN  BitsValue(hi) * 2^Len(lo) + BitsValue(lo)

\* the bits of a natural number, most significant first (<<>> for 0)
RECURSIVE NatBits(_)
NatBits(n) == IF n = 0 THEN <<>> ELSE NatBits(n \div 2) \o <<n % 2>>

\* Schoolbook multiplication of a nonempty bit sequence by a natural number
\* i with carry-in cin: the low Len(bits) bits of bits * i + cin, and the
\* carry out of them.  The low half is multiplied first and its carry
\* feeds the high half.
RECURSIVE MulSteps(_, _, _)
MulSteps(bits, i, cin) ==
    IF Len(bits) = 1
    THEN LET t == bits[1] * i + cin
         IN  [bits |-> <<t % 2>>, carry |-> t \div 2]
    ELSE LET h  == Len(bits) \div 2
             lo == MulSteps(SubSeq(bits, h + 1, Len(bits)), i, cin)
         IN  IF lo.carry <= i
             THEN LET hi == MulSteps(SubSeq(bits, 1, h), i, lo.carry)
                  IN  [bits |-> hi.bits \o lo.bits, carry |-> hi.carry]
             ELSE lo

\* bits * i as a bit sequence without leading zeros (bits[1] = 1, i >= 1)
MulBits(bits, i) ==
    LET p == MulSteps(bits, i, 0)
    IN  NatBits(p.carry) \o p.bits

\* Round the exact positive value  0.b1 b2 b3 ... * 2^(e+1)  (b1 = 1, `sticky`
\* telling whether nonzero bits follow those given) to the nearest float,
\* ties to the even significand.
RoundNearestEven(bits, e, sticky) ==
    IF Len(bits) <= MantBits
    THEN [m |-> bits \o Zeros(MantBits - Len(bits)), e |-> e]
    ELSE LET kept  == SubSeq(bits, 1, MantBits)
             guard == bits[MantBits + 1]
             rest  == sticky \/ \E k \in (MantBits + 2)..Len(bits) : bits[k] = 1
             up    == guard = 1 /\ (rest \/ kept[MantBits] = 1)
             inc   == IncBits(kept)
         IN  IF ~up THEN [m |-> kept, e |-> e]
             ELSE IF Len(inc) > MantBits
                  THEN [m |-> SubSeq(inc, 1, MantBits), e |-> e + 1]
                  ELSE [m |-> inc, e |-> e]

\* n / m for ints n >= 0, m > 0: Python's true division, correctly rounded
FloatDiv(n, m) ==
    IF n = 0 THEN FloatZero
    ELSE LET e == IF n >= m THEN Log2Quot(n, m) ELSE 0 - Log2QuotNeg(n, m)
             a == IF e >= 0 THEN n ELSE n * 2^(0 - e)
             b == IF e >= 0 THEN m * 2^e ELSE m
             \* b <= a < 2b: the leading bit is 1, MantBits more bits follow
             q == DivSteps(a - b, b, MantBits)
         IN  RoundNearestEven(<<1>> \o q.bits, e, q.rem # 0)

\* i * x for an int i >= 0 and a float x >= 0: i converts exactly, the
\* product is rounded once
FloatMulInt(i, x) ==
    IF i = 0 \/ x = FloatZero THEN FloatZero
    ELSE LET p == MulBits(x.m, i)
         IN  RoundNearestEven(p, x.e + (Len(p) - MantBits), FALSE)

\* int(x) for a float x >= 0: truncation toward zero
FloatToInt(x) ==
    IF x = FloatZero \/ x.e < 0 THEN 0
    ELSE IF x.e + 1 <= MantBits THEN BitsValue(SubSeq(x.m, 1, x.e + 1))
    ELSE BitsValue(x.m) * 2^(x.e + 1 - MantBits)

-----------------------------------------------------------------------------
(* resample_track *)

\* variant: floor division, len(points) // max_points
IntervalFloorDiv(n, m) == FloatDiv(n \div m, 1)

\* interval = len(points) / max_points
Interval(n, m) == FloatDiv(n, m)

\* idx = int(i * interval)
Idx(i, interval) == FloatToInt(FloatMulInt(i, interval))

\* variant: the guard off by one, idx < len(points) - 1
KeepBelowLast(idx, n) == idx < n - 1

\* if idx < len(points)
Keep(idx, n) == idx < n

\* variant: the loop counting from one, range(1, max_points + 1)
LoopRangeFromOne(m) == [k \in 1..m |-> k]

\* for i in range(max_points): the values of i, in loop order
LoopRange(m) == [k \in 1..m |-> k - 1]

\* the idx values resample_track appends, in loop order
ResampleIdx(n, m) ==
    LET interval == Interval(n, m)
        all == [k \in 1..Len(LoopRange(m)) |-> Idx(LoopRange(m)[k], interval)]
    IN  SelectSeq(all, LAMBDA idx : Keep(idx, n))

\* variant: the last input point appended unconditionally
resample_track_with_last(pts, m) ==
    LET sel == ResampleIdx(Len(pts), m)
    IN  [k \in 1..Len(sel) |-> pts[sel[k] + 1]]
        \o (IF pts = <<>> THEN <<>> ELSE <<pts[Len(pts)]>>)

\* resample_track(points, max_points): points[idx] is 0-based in the source
resample_track(pts, m) ==
    LET sel == ResampleIdx(Len(pts), m)
    IN  [k \in 1..Len(sel) |-> pts[sel[k] + 1]]

-----------------------------------------------------------------------------
(* File names and extensions.  A name is a sequence of characters. *)

LowerLetters ==
    <<"a", "b", "c", "d", "e", "f", "g", "h", "i", "j", "k", "l", "m",
      "n", "o", "p", "q", "r", "s", "t", "u", "v", "w", "x", "y", "z">>

UpperLetters ==
    <<"A", "B", "C", "D", "E", "F", "G", "H", "I", "J", "K", "L", "M",
      "N", "O", "P", "Q", "R", "S", "T", "U", "V", "W", "X", "Y", "Z">>

\* position of character c in the sequence letters, 0 when absent
LetterIndex(letters, c) ==
    IF \E k \in 1..Len(letters) : letters[k] = c
    THEN CHOOSE k \in 1..Len(letters) : letters[k] = c
    ELSE 0

\* str.upper()
Upper(str) ==
    [k \in 1..Len(str) |->
        IF LetterIndex(LowerLetters, str[k]) = 0 THEN str[k]
        ELSE UpperLetters[LetterIndex(LowerLetters, str[k])]]

\* str.lower()
Lower(str) ==
    [k \in 1..Len(str) |->
        IF LetterIndex(UpperLetters, str[k]) = 0 THEN str[k]
        ELSE LowerLetters[LetterIndex(UpperLetters, str[k])]]

\* Path.suffix: the name from its last dot on, "" when there is no dot or the
\* last dot is the first or the last character of the name
Suffix(name) ==
    LET dots == {k \in 1..Len(name) : name[k] = "."}
        last == IF dots = {} THEN 0 ELSE CHOOSE k \in dots : \A j \in dots : j <= k
    IN  IF 1 < last /\ last < Len(name) THEN SubSeq(name, last, Len(name)) ELSE <<>>

\* file_path.suffix[1:].upper()
Extension(name) ==
    LET suffix == Suffix(name)
    IN  Upper(IF suffix = <<>> THEN <<>> ELSE Tail(suffix))

\* dir_path.glob(f"*.{file_format.lower()}"): the names ending in
\* "." + file_format.lower(), in directory order
Glob(listing, file_format) ==
    LET tail == <<".">> \o Lower(file_format)
    IN  SelectSeq(listing, LAMBDA f :
            /\ Len(f.name) >= Len(tail)
            /\ SubSeq(f.name, Len(f.name) - Len(tail) + 1, Len(f.name)) = tail)

-----------------------------------------------------------------------------
(* The loaders.  A file is a record                                        *)
(*   [name, readable, wellformed, body]                                    *)
(* readable: open() succeeds; wellformed: the content parses under the     *)
(* grammar of the format its loader expects; body: the parsed content.     *)
(* A loader returns [raised, returned]: the exception that left it         *)
(* ("none" when it returned) and the list of points it returned.           *)

Returned(pts) == [raised |-> "none", returned |-> pts]
Raised(exc) == [raised |-> exc, returned |-> <<>>]

\* the concatenation of a sequence of sequences
RECURSIVE Concat(_)
Concat(seqs) == IF seqs = <<>> THEN <<>> ELSE Head(seqs) \o Concat(Tail(seqs))

\* load_points_from_gpx.  body: gpx.tracks, each track [segments], each
\* segment [points], each point [latitude, longitude].
load_points_from_gpx(f) ==
    IF ~f.readable THEN Raised("OSError")
    ELSE IF ~f.wellformed THEN Raised("GPXException")
    ELSE LET segments == Concat([t \in 1..Len(f.body) |-> f.body[t].segments])
             flat == Concat([g \in 1..Len(segments) |-> segments[g].points])
         IN  Returned([k \in 1..Len(flat) |-> <<flat[k].latitude, flat[k].longitude>>])

\* data.value * (180.0 / 2**31).  180.0 / 2**31 is 45 * 2^-29 exactly; the
\* raw values of the model are multiples of 2^29 semicircles, for which the
\* product is an exact whole number of degrees.
SemicirclesToDegrees(value) == (value \div (2^29)) * 45

\* An optional value is <<>> for None and <<v>> for the value v.
\* The value the loop over the fields of one record leaves in the variable
\* assigned from the fields called field_name: None when there is none,
\* else the conversion of the last one
LastConverted(fields, field_name) ==
    LET hits == SelectSeq(fields, LAMBDA d : d.name = field_name)
    IN  IF hits = <<>> THEN <<>>
        ELSE <<SemicirclesToDegrees(hits[Len(hits)].value[1])>>

\* `None * float` raises TypeError: a position field whose value is None
RecordRaises(fields) ==
    \E k \in 1..Len(fields) :
        /\ fields[k].name \in {"position_lat", "position_long"}
        /\ fields[k].value = <<>>

\* load_points_from_fit.  body: the messages of the file, each
\* [name, fields], fields a sequence of [name, value].
load_points_from_fit(f) ==
    IF ~f.readable THEN Raised("OSError")
    ELSE IF ~f.wellformed THEN Raised("FitParseError")
    ELSE LET records == SelectSeq(f.body, LAMBDA msg : msg.name = "record")
         IN  IF \E k \in 1..Len(records) : RecordRaises(records[k].fields)
             THEN Raised("TypeError")
             ELSE LET complete == SelectSeq(records, LAMBDA msg :
                          /\ LastConverted(msg.fields, "position_lat") # <<>>
                          /\ LastConverted(msg.fields, "position_long") # <<>>)
                  IN  Returned([k \in 1..Len(complete) |->
                          <<LastConverted(complete[k].fields, "position_lat")[1],
                            LastConverted(complete[k].fields, "position_long")[1]>>])

Digits == <<"0", "1", "2", "3", "4", "5", "6", "7", "8", "9">>

\* the number a nonempty sequence of decimal digits denotes
RECURSIVE DigitsValue(_)
DigitsValue(str) ==
    IF str = <<>> THEN 0
    ELSE 10 * DigitsValue(SubSeq(str, 1, Len(str) - 1))
         + (LetterIndex(Digits, str[Len(str)]) - 1)

IsDigits(str) ==
    str # <<>> /\ \A k \in 1..Len(str) : LetterIndex(Digits, str[k]) # 0

\* float(text) for the texts of the model: None (the text of an element
\* without content, written <<>>), an optionally signed run of decimal
\* digits, or text that is no number.  Gives the exception raised, or "none".
FloatRaises(text) ==
    IF text = <<>> THEN "TypeError"
    ELSE IF IsDigits(text) THEN "none"
    ELSE IF text[1] = "-" /\ IsDigits(Tail(text)) THEN "none"
    ELSE "ValueError"

\* float(text) where FloatRaises(text) = "none"
FloatValue(text) ==
    IF text[1] = "-" THEN 0 - DigitsValue(Tail(text)) ELSE DigitsValue(text)

\* element.find(tag): the first child with that tag, None when there is none
Find(children, tag) ==
    LET hits == SelectSeq(children, LAMBDA c : c.tag = tag)
    IN  IF hits = <<>> THEN <<>> ELSE <<hits[1]>>

\* the text of the first child with that tag, which exists
TextOf(children, tag) == Find(children, tag)[1].text

\* whether a Trackpoint reaches points.append: Position, LatitudeDegrees and
\* LongitudeDegrees are all found
TrackpointHasBoth(tp) ==
    /\ Find(tp.children, "Position") # <<>>
    /\ Find(Find(tp.children, "Position")[1].children, "LatitudeDegrees") # <<>>
    /\ Find(Find(tp.children, "Position")[1].children, "LongitudeDegrees") # <<>>

\* the children of the Position element of a Trackpoint that has one
Position(tp) == Find(tp.children, "Position")[1].children

\* the exception float() raises at a Trackpoint that has both elements
\* (latitude is converted first), "none" when both convert
TrackpointRaises(tp) ==
    LET lat == FloatRaises(TextOf(Position(tp), "LatitudeDegrees"))
    IN  IF lat # "none" THEN lat
        ELSE FloatRaises(TextOf(Position(tp), "LongitudeDegrees"))

\* variant: no try/except round the parse
load_points_from_tcx_uncaught(f) ==
    IF ~f.readable THEN Raised("OSError")
    ELSE IF ~f.wellformed THEN Raised("ParseError")
    ELSE LET both == SelectSeq(f.body, TrackpointHasBoth)
             bad  == SelectSeq(both, LAMBDA tp : TrackpointRaises(tp) # "none")
         IN  IF bad # <<>> THEN Raised(TrackpointRaises(bad[1]))
             ELSE Returned([k \in 1..Len(both) |->
                      <<FloatValue(TextOf(Position(both[k]), "LatitudeDegrees")),
                        FloatValue(TextOf(Position(both[k]), "LongitudeDegrees"))>>])

\* load_points_from_tcx.  body: the Trackpoint elements of the document in
\* document order.  An element is [tag, text, children]; the children of a
\* Trackpoint of interest are Position elements, theirs LatitudeDegrees and
\* LongitudeDegrees elements with text.  Only ParseError is caught.
load_points_from_tcx(f) ==
    IF ~f.readable THEN Raised("OSError")
    ELSE IF ~f.wellformed THEN Returned(<<>>)
    ELSE LET both == SelectSeq(f.body, TrackpointHasBoth)
             bad  == SelectSeq(both, LAMBDA tp : TrackpointRaises(tp) # "none")
         IN  IF bad # <<>> THEN Raised(TrackpointRaises(bad[1]))
             ELSE Returned([k \in 1..Len(both) |->
                      <<FloatValue(TextOf(Position(both[k]), "LatitudeDegrees")),
                        FloatValue(TextOf(Position(both[k]), "LongitudeDegrees"))>>])

-----------------------------------------------------------------------------
(* add_track_to_map and add_track_file_to_map *)

\* min_track_points
min_track_points == 4

\* variant: the gate off by one, len(points) <= min_track_points
TooShortInclusive(pts) == Len(pts) <= min_track_points

\* if len(points) < min_track_points: return
TooShort(pts) == Len(pts) < min_track_points

\* add_track_to_map: the map after the call
add_track_to_map(pts, map, m, color) ==
    IF TooShort(pts) THEN map
    ELSE Append(map, [locations |-> resample_track(pts, m), color |-> color])

GPX == <<"G", "P", "X">>
FIT == <<"F", "I", "T">>
TCX == <<"T", "C", "X">>

\* the loaders dict
loaders ==
    (GPX :> "load_points_from_gpx") @@ (FIT :> "load_points_from_fit")
        @@ (TCX :> "load_points_from_tcx")

\* variant: a default loader, loaders.get(extension, load_points_from_gpx)
LoaderForDefaultGpx(extension) ==
    IF extension \in DOMAIN loaders THEN loaders[extension]
    ELSE "load_points_from_gpx"

\* loader = loaders[extension]: "KeyError" when the key is missing
LoaderFor(extension) ==
    IF extension \in DOMAIN loaders THEN loaders[extension] ELSE "KeyError"

\* points = loader(file_path)
CallLoader(loader, f) ==
    CASE loader = "load_points_from_gpx" -> load_points_from_gpx(f)
      [] loader = "load_points_from_fit" -> load_points_from_fit(f)
      [] loader = "load_points_from_tcx" -> load_points_from_tcx(f)

\* add_track_file_to_map(f, map, m, color): the exception that left it
\* ("none" when it returned), the map after it, the files it opened and the
\* loader calls it made
add_track_file_to_map(f, map, m, color) ==
    LET loader == LoaderFor(Extension(f.name))
    IN  IF loader = "KeyError"
        THEN [raised |-> "KeyError", map |-> map, opened |-> <<>>, called |-> <<>>]
        ELSE LET r == CallLoader(loader, f)
             IN  [raised |-> r.raised,
                  map    |-> IF r.raised = "none"
                             THEN add_track_to_map(r.returned, map, m, color)
                             ELSE map,
                  opened |-> <<f.name>>,
                  called |-> <<[loader |-> loader, raised |-> r.raised,
                                returned |-> r.returned]>>]

-----------------------------------------------------------------------------
(* Direct calls of resample_track *)

\* A GeoPoint is a pair <<latitude, longitude>> in degrees.
\* A track of n distinct points.
StraightTrack(n) == [j \in 1..n |-> <<j, 0 - j>>]

\* A track of n points that turns round half way and revisits its points.
OutAndBackTrack(n) ==
    [j \in 1..n |-> IF 2 * j <= n + 1 THEN <<j, 0 - j>>
                                     ELSE <<n + 1 - j, j - n - 1>>]

ResampleInputs ==
    {StraightTrack(n) : n \in 0..MaxLen} \cup {OutAndBackTrack(n) : n \in 0..MaxLen}

ResampleInit ==
    /\ points \in ResampleInputs
    /\ max_points \in 1..MaxBudget
    /\ resampled = <<>>
    /\ selected = <<>>
    /\ rpc = "call"
    /\ file_path = "none"
    /\ folium_map = <<>>
    /\ outcome = "none"
    /\ opened = <<>>
    /\ called = <<>>
    /\ dir = <<>>
    /\ fmt = 0
    /\ files = <<>>
    /\ pc = "idle"
    /\ map_html = "absent"

\* one call resample_track(points, max_points)
ResampleTrack ==
    /\ rpc = "call"
    /\ resampled' = resample_track(points, max_points)
    /\ selected' = ResampleIdx(Len(points), max_points)
    /\ rpc' = "done"
    /\ UNCHANGED <<points, max_points, fileVars, mainVars>>

ResampleNext == ResampleTrack

SpecResample == ResampleInit /\ [][ResampleNext]_vars

-----------------------------------------------------------------------------
(* The files of the model *)

File(name, readable, wellformed, body) ==
    [name |-> name, readable |-> readable, wellformed |-> wellformed, body |-> body]

\* every sequence over S of length at most n
SeqsUpTo(S, n) == UNION {[1..k -> S] : k \in 0..n}

Field(name, value) == [name |-> name, value |-> value]
Message(name, fields) == [name |-> name, fields |-> fields]

\* FIT messages: latitude then longitude; longitude then latitude; latitude
\* alone; a latitude field holding the invalid value (None); a message of
\* another kind that carries the same field names.
FitBoth ==
    Message("record", <<Field("timestamp", <<1>>), Field("position_lat", <<2^29>>),
                        Field("position_long", <<0 - 2^29>>)>>)
FitBothSwapped ==
    Message("record", <<Field("position_long", <<2^30>>), Field("position_lat", <<0>>)>>)
FitLatOnly == Message("record", <<Field("position_lat", <<2^29>>)>>)
FitLatInvalid ==
    Message("record", <<Field("position_lat", <<>>), Field("position_long", <<2^29>>)>>)
FitOtherKind ==
    Message("lap", <<Field("position_lat", <<2^29>>), Field("position_long", <<2^29>>)>>)

FitMessages == {FitBoth, FitBothSwapped, FitLatOnly, FitLatInvalid, FitOtherKind}

Element(tag, text, children) == [tag |-> tag, text |-> text, children |-> children]
Lat(text) == Element("LatitudeDegrees", text, <<>>)
Lon(text) == Element("LongitudeDegrees", text, <<>>)
Trackpoint(children) == Element("Trackpoint", <<>>, children)
TimeElement == Element("Time", <<"1">>, <<>>)

\* TCX Trackpoints: both coordinates; both, longitude first; no Position;
\* latitude alone; a latitude element without text; a latitude that is no
\* number.
TcxBoth ==
    Trackpoint(<<TimeElement,
                 Element("Position", <<>>, <<Lat(<<"4", "5">>), Lon(<<"-", "7">>)>>)>>)
TcxBothSwapped ==
    Trackpoint(<<Element("Position", <<>>, <<Lon(<<"8">>), Lat(<<"4", "6">>)>>)>>)
TcxNoPosition == Trackpoint(<<TimeElement>>)
TcxLatOnly == Trackpoint(<<Element("Position", <<>>, <<Lat(<<"4", "5">>)>>)>>)
TcxLatEmpty == Trackpoint(<<Element("Position", <<>>, <<Lat(<<>>), Lon(<<"8">>)>>)>>)
TcxLatJunk ==
    Trackpoint(<<Element("Position", <<>>, <<Lat(<<"4", "x">>), Lon(<<"8">>)>>)>>)

TcxTrackpoints ==
    {TcxBoth, TcxBothSwapped, TcxNoPosition, TcxLatOnly, TcxLatEmpty, TcxLatJunk}

GpxPoint(lat, lon) == [latitude |-> lat, longitude |-> lon]
GpxSegment(pts) == [points |-> pts]
GpxTrack(segments) == [segments |-> segments]
GpxSegmentOfTwo == GpxSegment(<<GpxPoint(1, 2), GpxPoint(3, 4)>>)
GpxSegmentOfThree == GpxSegment(<<GpxPoint(5, 6), GpxPoint(7, 8), GpxPoint(9, 10)>>)
GpxSegments == {GpxSegmentOfTwo, GpxSegmentOfThree}
GpxTracks == {GpxTrack(segments) : segments \in SeqsUpTo(GpxSegments, MaxNest)}
GpxBodies == SeqsUpTo(GpxTracks, MaxNest)

GpxNames == {<<"a", ".", "g", "p", "x">>}
FitNames == {<<"b", ".", "f", "i", "t">>}
TcxNames == {<<"c", ".", "t", "c", "x">>}

\* names whose extension is a supported one in another case, or after a
\* second dot
GpxCaseNames == {<<"A", ".", "G", "p", "X">>, <<"a", ".", "f", "i", "t", ".", "G", "P", "X">>}
FitCaseNames == {<<"b", ".", "F", "I", "T">>}
TcxCaseNames == {<<"c", ".", "1", ".", "T", "c", "x">>}

\* names whose extension is no supported one: .csv, no suffix, a hidden file
\* called ".gpx", a name ending in a dot, .CSV after .gpx
OtherNames ==
    {<<"d", ".", "c", "s", "v">>, <<"e">>, <<".", "g", "p", "x">>,
     <<"g", "p", "x", ".">>, <<"f", ".", "g", "p", "x", ".", "C", "S", "V">>}

\* the files called one of `names`: well-formed with each body, unreadable,
\* and malformed
FilesNamed(names, bodies) ==
    {File(n, TRUE, TRUE, b) : n \in names, b \in bodies}
        \cup {File(n, FALSE, TRUE, <<>>) : n \in names}
        \cup {File(n, TRUE, FALSE, <<>>) : n \in names}

Files ==
    FilesNamed(GpxNames, GpxBodies)
        \cup FilesNamed(FitNames, SeqsUpTo(FitMessages, MaxRecords))
        \cup FilesNamed(TcxNames, SeqsUpTo(TcxTrackpoints, MaxRecords))
        \cup FilesNamed(GpxCaseNames, {<<>>, <<GpxTrack(<<GpxSegmentOfTwo, GpxSegmentOfThree>>)>>})
        \cup FilesNamed(FitCaseNames, {<<>>, <<FitBoth>>})
        \cup FilesNamed(TcxCaseNames, {<<>>, <<TcxBoth>>})
        \cup FilesNamed(OtherNames, {<<>>})

-----------------------------------------------------------------------------
(* Direct calls of add_track_file_to_map *)

FileInit ==
    /\ file_path \in Files
    /\ max_points \in 1..MaxFileBudget
    /\ folium_map = <<>>
    /\ outcome = "none"
    /\ opened = <<>>
    /\ called = <<>>
    /\ points = <<>>
    /\ resampled = <<>>
    /\ selected = <<>>
    /\ rpc = "idle"
    /\ dir = <<>>
    /\ fmt = 0
    /\ files = <<>>
    /\ pc = "idle"
    /\ map_html = "absent"

\* one call add_track_file_to_map(file_path, folium_map, max_points), the
\* colour left at its default
AddTrackFileToMap ==
    /\ outcome = "none"
    /\ LET r == add_track_file_to_map(file_path, folium_map, max_points, "blue")
       IN  /\ outcome' = (IF r.raised = "none" THEN "ok" ELSE r.raised)
           /\ folium_map' = r.map
           /\ opened' = opened \o r.opened
           /\ called' = called \o r.called
    /\ UNCHANGED <<file_path, max_points, resampleVars, mainVars>>

FileNext == AddTrackFileToMap

SpecFile == FileInit /\ [][FileNext]_vars

-----------------------------------------------------------------------------
(* The __main__ block *)

RESAMPLE_MAX_POINTS_PER_TRACK == 100

file_formats == <<<<"g", "p", "x">>, <<"f", "i", "t">>, <<"t", "c", "x">>>>

\* color[file_format], by position in file_formats
color == <<"blue", "red", "green">>

\* The activity files the directory is drawn from.
GoodGpx == File(<<"a", ".", "g", "p", "x">>, TRUE, TRUE,
                <<GpxTrack(<<GpxSegmentOfTwo, GpxSegmentOfThree>>)>>)
MalformedGpx == File(<<"b", ".", "g", "p", "x">>, TRUE, FALSE, <<>>)
GoodFit == File(<<"c", ".", "f", "i", "t">>, TRUE, TRUE,
                <<FitBoth, FitBothSwapped, FitLatOnly, FitBoth, FitBothSwapped>>)
InvalidLatFit == File(<<"d", ".", "f", "i", "t">>, TRUE, TRUE,
                      <<FitBoth, FitLatInvalid, FitBoth, FitBoth, FitBoth>>)
GoodTcx == File(<<"e", ".", "t", "c", "x">>, TRUE, TRUE,
                <<TcxBoth, TcxNoPosition, TcxBothSwapped, TcxBoth, TcxBothSwapped>>)
MalformedTcx == File(<<"f", ".", "t", "c", "x">>, TRUE, FALSE, <<>>)
UnreadableTcx == File(<<"g", ".", "t", "c", "x">>, FALSE, TRUE, <<>>)
CsvFile == File(<<"h", ".", "c", "s", "v">>, TRUE, TRUE, <<>>)

DirFiles ==
    {GoodGpx, MalformedGpx, GoodFit, InvalidLatFit, GoodTcx, MalformedTcx,
     UnreadableTcx, CsvFile}

\* the listings of a directory: the files in any order, no name twice
Listings ==
    {d \in SeqsUpTo(DirFiles, MaxFiles) :
        \A j, k \in 1..Len(d) : j # k => d[j].name # d[k].name}

MainInit ==
    /\ dir \in Listings
    /\ fmt = 1
    /\ files = <<>>
    /\ pc = "formats"
    /\ map_html = "absent"
    /\ folium_map = <<>>
    /\ max_points = RESAMPLE_MAX_POINTS_PER_TRACK
    /\ outcome = "none"
    /\ opened = <<>>
    /\ called = <<>>
    /\ file_path = "none"
    /\ points = <<>>
    /\ resampled = <<>>
    /\ selected = <<>>
    /\ rpc = "idle"

\* for file_format in file_formats: add_track_files_to_map(...) is entered
\* and globs the directory
AddTrackFilesToMap ==
    /\ pc = "formats"
    /\ fmt \in 1..Len(file_formats)
    /\ files' = Glob(dir, file_formats[fmt])
    /\ pc' = "files"
    /\ UNCHANGED <<dir, fmt, map_html, max_points, fileVars, resampleVars>>

\* for file in files: add_track_file_to_map(file, ...).  An exception that
\* leaves the call is caught nowhere: it ends the program.
AddNextFile ==
    /\ pc = "files"
    /\ files # <<>>
    /\ LET r == add_track_file_to_map(Head(files), folium_map, max_points, color[fmt])
       IN  /\ folium_map' = r.map
           /\ opened' = opened \o r.opened
           /\ called' = called \o r.called
           /\ IF r.raised = "none"
              THEN /\ files' = Tail(files)
                   /\ UNCHANGED <<pc, outcome>>
              ELSE /\ pc' = "crashed"
                   /\ outcome' = r.raised
                   /\ UNCHANGED files
    /\ UNCHANGED <<dir, fmt, map_html, max_points, file_path, resampleVars>>

\* add_track_files_to_map returns; the loop over file_formats goes on or ends
NextFormat ==
    /\ pc = "files"
    /\ files = <<>>
    /\ fmt' = fmt + 1
    /\ pc' = IF fmt = Len(file_formats) THEN "save" ELSE "formats"
    /\ UNCHANGED <<dir, files, map_html, max_points, fileVars, resampleVars>>

\* folium_map.save("map.html")
SaveMap ==
    /\ pc = "save"
    /\ map_html' = folium_map
    /\ pc' = "done"
    /\ UNCHANGED <<dir, fmt, files, max_points, fileVars, resampleVars>>

MainNext == AddTrackFilesToMap \/ AddNextFile \/ NextFormat \/ SaveMap

Spec == MainInit /\ [][MainNext]_vars

-----------------------------------------------------------------------------
(* Properties of resample_track, checked under SpecResample *)

Min(a, b) == IF a <= b THEN a ELSE b

\* the returned track is the input read at the selected indices
ReadsSelected ==
    /\ Len(resampled) = Len(selected)
    /\ \A k \in 1..Len(selected) : resampled[k] = points[selected[k] + 1]

\* C1 as stated: for a track of n > 0 points the output has exactly
\* min(max_points, n) points.
C1_LengthIsMin ==
    (rpc = "done" /\ Len(points) > 0)
        => Len(resampled) = Min(max_points, Len(points))

\* C1 amended: for a track of n > 0 points the output has exactly max_points
\* points, which is min(max_points, n) whenever max_points <= n.
C1_LengthIsBudget ==
    (rpc = "done" /\ Len(points) > 0)
        => /\ Len(resampled) = max_points
           /\ max_points <= Len(points)
                => Len(resampled) = Min(max_points, Len(points))

C1_Witness ==
    /\ rpc = "done"
    /\ Len(points) > 0
    /\ max_points > Len(points)
    /\ Len(resampled) = max_points

\* C2: the output is exactly input[floor(i * n / m)] for i = 0 .. m-1 in
\* increasing i, leaving out every i whose index is >= n.
C2_ExactStride ==
    rpc = "done" =>
        LET n == Len(points)
            exact == [k \in 1..max_points |-> ((k - 1) * n) \div max_points]
            kept == SelectSeq(exact, LAMBDA idx : idx < n)
        IN  resampled = [k \in 1..Len(kept) |-> points[kept[k] + 1]]

\* C3: the output never has more than max_points points, and it is empty
\* when the input is empty.
C3_Bounded ==
    rpc = "done" =>
        /\ Len(resampled) <= max_points
        /\ Len(points) = 0 => resampled = <<>>

C3_Witness ==
    /\ rpc = "done"
    /\ Len(points) > max_points
    /\ Len(resampled) = max_points

\* C4: for a nonempty track the first output point is the first input point
\* (index 0) and the indices selected for consecutive output positions never
\* decrease.
C4_FirstAndOrder ==
    (rpc = "done" /\ Len(points) > 0) =>
        /\ ReadsSelected
        /\ selected # <<>>
        /\ selected[1] = 0
        /\ resampled[1] = points[1]
        /\ \A k \in 1..(Len(selected) - 1) : selected[k] <= selected[k + 1]

C4_Witness ==
    /\ rpc = "done"
    /\ Len(points) > 1
    /\ Len(selected) > 1
    /\ selected[1] = 0
    /\ selected[Len(selected)] > 0

\* C10: when 1 <= n <= max_points every input index 0..n-1 is selected at
\* least once; when max_points < n the selected indices strictly increase
\* and the last input index n-1 is never selected.
C10_Coverage ==
    rpc = "done" =>
        LET n == Len(points)
        IN  /\ (1 <= n /\ n <= max_points) =>
                  \A j \in 0..(n - 1) : \E k \in 1..Len(selected) : selected[k] = j
            /\ max_points < n =>
                  /\ \A k \in 1..(Len(selected) - 1) : selected[k] < selected[k + 1]
                  /\ \A k \in 1..Len(selected) : selected[k] # n - 1

C10_Witness ==
    /\ rpc = "done"
    /\ 1 < max_points
    /\ max_points < Len(points)
    /\ Len(selected) = max_points
    /\ selected[Len(selected)] = Len(points) - 2

-----------------------------------------------------------------------------
(* Properties of add_track_file_to_map, checked under SpecFile *)

\* the exception a lookup of a missing key in the loaders dict raises
UnsupportedFormat == "KeyError"

\* whether the extension of a name, lower-cased, is one of gpx, fit, tcx
SupportedName(name) ==
    LET suffix == Suffix(name)
        ext == IF suffix = <<>> THEN <<>> ELSE Tail(suffix)
    IN  Lower(ext) \in {file_formats[k] : k \in 1..Len(file_formats)}

\* a FIT record message that carries both coordinates with a numeric value
FitUsable(msg) ==
    /\ msg.name = "record"
    /\ \E k \in 1..Len(msg.fields) :
           msg.fields[k].name = "position_lat" /\ msg.fields[k].value # <<>>
    /\ \E k \in 1..Len(msg.fields) :
           msg.fields[k].name = "position_long" /\ msg.fields[k].value # <<>>

\* a Trackpoint whose Position carries both coordinates as decimal text
TcxUsable(tp) ==
    \E p \in 1..Len(tp.children) :
        /\ tp.children[p].tag = "Position"
        /\ \E k \in 1..Len(tp.children[p].children) :
               /\ tp.children[p].children[k].tag = "LatitudeDegrees"
               /\ FloatRaises(tp.children[p].children[k].text) = "none"
        /\ \E k \in 1..Len(tp.children[p].children) :
               /\ tp.children[p].children[k].tag = "LongitudeDegrees"
               /\ FloatRaises(tp.children[p].children[k].text) = "none"

\* C6: in a readable, well-formed FIT or TCX file the records that lack a
\* usable latitude or longitude raise no error and are left out: the loader
\* returns one point for each record that carries both coordinates.
C6_PartialRecordsOmitted ==
    (/\ outcome # "none"
     /\ called # <<>>
     /\ file_path.readable
     /\ file_path.wellformed
     /\ called[1].loader \in {"load_points_from_fit", "load_points_from_tcx"})
        => /\ called[1].raised = "none"
           /\ called[1].loader = "load_points_from_fit" =>
                 Len(called[1].returned) = Len(SelectSeq(file_path.body, FitUsable))
           /\ called[1].loader = "load_points_from_tcx" =>
                 Len(called[1].returned) = Len(SelectSeq(file_path.body, TcxUsable))

\* C7: a file whose extension, compared case-insensitively, is none of gpx,
\* fit, tcx ends in the unsupported-format outcome (the KeyError of the
\* loaders lookup); no loader is invoked, no file is opened and the map is
\* untouched.
C7_UnsupportedExtension ==
    (outcome # "none" /\ ~SupportedName(file_path.name))
        => /\ outcome = UnsupportedFormat
           /\ called = <<>>
           /\ opened = <<>>
           /\ folium_map = <<>>

C7_Witness ==
    /\ outcome = UnsupportedFormat
    /\ file_path.name = <<"d", ".", "c", "s", "v">>
    /\ called = <<>>

\* C8: on a readable file whose content does not parse, the TCX loader
\* raises nothing and returns an empty track to its caller, while the GPX
\* and the FIT loader raise and the error leaves add_track_file_to_map.
C8_AsymmetricPropagation ==
    (/\ outcome # "none"
     /\ called # <<>>
     /\ file_path.readable
     /\ ~file_path.wellformed)
        => /\ called[1].loader = "load_points_from_tcx" =>
                 /\ called[1].raised = "none"
                 /\ called[1].returned = <<>>
                 /\ outcome = "ok"
           /\ called[1].loader \in {"load_points_from_gpx", "load_points_from_fit"} =>
                 /\ called[1].raised \in {"GPXException", "FitParseError"}
                 /\ outcome = called[1].raised

C8_Witness ==
    /\ outcome = "ok"
    /\ called # <<>>
    /\ called[1].loader = "load_points_from_tcx"
    /\ file_path.readable
    /\ ~file_path.wellformed
    /\ called[1].returned = <<>>

\* C9: a track of fewer than 4 points is neither reduced nor drawn (the map
\* stays as it was); a track of 4 or more points is reduced with max_points
\* and exactly one polyline, of the reduced track, is added.
C9_MinLengthGate ==
    outcome = "ok" =>
        LET pts == called[1].returned
        IN  IF Len(pts) < 4
            THEN folium_map = <<>>
            ELSE folium_map =
                    <<[locations |-> resample_track(pts, max_points), color |-> "blue"]>>

C9_Witness ==
    /\ outcome = "ok"
    /\ Len(called[1].returned) = 4
    /\ Len(folium_map) = 1
    /\ Len(folium_map[1].locations) = max_points

-----------------------------------------------------------------------------
(* Properties of the __main__ block, checked under Spec *)

\* the glob matches the loops have not reached yet: those after the current
\* file, and those of the formats after the current one
Remaining ==
    (IF files = <<>> THEN <<>> ELSE Tail(files))
        \o Concat([k \in 1..(Len(file_formats) - fmt) |->
                      Glob(dir, file_formats[fmt + k])])

\* C5: when extraction of one file of the batch fails, the file is skipped
\* and every remaining file is still processed: the program never stops on
\* a failed file with files left unprocessed.
C5_SkipAndContinue == pc = "crashed" => Remaining = <<>>

=============================================================================
